---- MODULE Spec2Model ----
(***************************************************************************)
(* Model of the trado market-data backend:                                 *)
(*   - src/src/db/index.ts   the batching storage sink                     *)
(*   - src/unnamed/part_000  the MQTT client (reconnect backoff, health)   *)
(*   - src/unnamed/part_001  the message processor and the subscription    *)
(*                           manager                                       *)
(* JavaScript runs every handler to its next await without interleaving,   *)
(* so every action below is one such run-to-completion step.               *)
(***************************************************************************)
EXTENDS Integers, Sequences, FiniteSets, TLC

(***************************************************************************)
(* Bounds of the model.                                                    *)
(***************************************************************************)
BatchSize == 2      \* config.app.batchSize, scaled down
MaxObs == 3         \* saveToDatabase calls explored in SpecSink
MaxFaults == 1      \* failing store / network round trips explored
MaxMsgs == 2        \* processMessage invocations explored in SpecFeed
MaxSubscribeAll == 2  \* subscribeToAllIndices calls explored (connect events)
MaxReconnect == 11  \* consecutive reconnect events explored in SpecConn
MaxTime == 16       \* seconds of clock explored in SpecConn
StrikeRange == 0    \* STRIKE_RANGE of the configuration, scaled down

(***************************************************************************)
(* A topic is the sequence of its '/'-separated segments, a segment the    *)
(* sequence of its '|'-separated parts: "index/NIFTY" is                   *)
(* <<<<"index">>, <<"NIFTY">>>> and "index/NSE_FO|tok" is                  *)
(* <<<<"index">>, <<"NSE_FO", tok>>>>.  An index name is a segment.        *)
(***************************************************************************)
IndexPrefix == <<"index">>
INDICES == { <<"NIFTY">> }

\* `index/${indexName}`, part_001 line 156
IndexTopic(indexName) == <<IndexPrefix, indexName>>

SinkTopics == { IndexTopic(n) : n \in INDICES }
SinkPrices == { 20000 }

\* `index/NSE_FO|${token}`, part_001 lines 210 and 220
OptionTopic(token) == <<IndexPrefix, <<"NSE_FO", token>>>>

\* the token the token API returns for a leg, an opaque value per instrument;
\* <<>> stands for null
Token(indexName, strike, optionType) == <<indexName, strike, optionType>>
Null == <<>>

\* topics and prices of the messages delivered in SpecFeed: the base index
\* channels and the channel of one option of each index
FeedPrices == { 20000, 20020, 20030 }
OptionTopics == { OptionTopic(Token(n, 20000, "ce")) : n \in INDICES }
IndexTopics == { IndexTopic(n) : n \in INDICES }
FeedTopics == IndexTopics \cup OptionTopics

VARIABLES
  \* ---- src/src/db/index.ts
  dataBatch,            \* pending BatchItems, in push order
  batchTimer,           \* TRUE when the flush timeout is armed (non-null)
  topicCache,           \* topic name -> topic_id, 0 when absent
  flushes,              \* every flushBatch run that took a snapshot, in start order
  topics,               \* store table topics: row i has topic_id i
  ltpData,              \* store table ltp_data: committed rows
  uniqueTopicName,      \* whether the store schema declares topic_name UNIQUE
  nextSeq,              \* number of saveToDatabase calls so far
  unhandledRejections,  \* rejected flushBatch promises nobody handles
  processAlive,         \* FALSE once the runtime has stopped the process
  faults,               \* failing round trips so far
  pool,                 \* the connection pool: "open", "ending" (pool.end() called), "ended"
  cleanup,              \* the cleanupDatabase call: its position and the flush it awaits
  \* ---- src/unnamed/part_001
  indexLtpMap,          \* Map index name -> last price
  atmStrikeMap,         \* Map index name -> recorded ATM strike
  isFirstIndexMessage,  \* Map index name -> first-message flag
  activeSubscriptions,  \* Set of subscribed topics
  subscribeCalls,       \* topic -> number of client.subscribe calls issued
  procs,                \* every processMessage invocation, in delivery order
  decodeFailures,       \* payloads reported as not decodable (line 55)
  \* ---- src/unnamed/part_000
  reconnectCount,       \* failed connection attempts since the last connect
  reconnectPeriod,      \* client.options.reconnectPeriod in ms, a fraction [num, den]
  healthCheckTimer,     \* TRUE when the health-check interval is set (non-null)
  healthCheckDue,       \* when the interval fires next (seconds)
  liveIntervals,        \* number of setInterval timers set and not cleared
  lastPacketTime,       \* time of the last packet sent or received (seconds)
  now,                  \* the clock, Date.now() in seconds
  session               \* the client: "connecting", "connected", "closing", "closed"

sinkVars == <<dataBatch, batchTimer, topicCache, flushes, topics, ltpData,
              uniqueTopicName, nextSeq, unhandledRejections, processAlive, faults,
              pool, cleanup>>

feedVars == <<indexLtpMap, atmStrikeMap, isFirstIndexMessage, activeSubscriptions,
              subscribeCalls, procs, decodeFailures>>

connVars == <<reconnectCount, reconnectPeriod, healthCheckTimer, healthCheckDue,
              liveIntervals, lastPacketTime, now, session>>

vars == <<sinkVars, feedVars, connVars>>

(***************************************************************************)
(* Helpers.                                                                *)
(***************************************************************************)
\* topic.split('/')[1]; <<>> stands for undefined
SplitIndexName(topic) == IF Len(topic) >= 2 THEN topic[2] ELSE <<>>

\* topic.startsWith(`${config.app.indexPrefix}/`)
StartsWithIndexPrefix(topic) == Len(topic) >= 2 /\ topic[1] = IndexPrefix

\* the BatchItem pushed by saveToDatabase; seq numbers the call
BatchItem(topic, ltp, indexName, seq) ==
  [topic |-> topic, ltp |-> ltp, indexName |-> indexName, seq |-> seq]

(***************************************************************************)
(* flushBatch, lines 204-219: the synchronous prefix up to the first await. *)
(* s is the record [dataBatch, batchTimer, flushes].                       *)
(***************************************************************************)
NewFlush(trigger, batch) ==
  [ trigger |-> trigger,
    batch   |-> batch,
    pc      |-> "connect",
    res     |-> [i \in 1..Len(batch) |-> "idle"],
    ids     |-> [i \in 1..Len(batch) |-> 0],
    tx      |-> {} ]

FlushBatchKeepsBuffer(s, trigger) ==
  LET s1 == [s EXCEPT !.batchTimer = FALSE]
  IN  IF s.dataBatch = <<>> THEN s1
      ELSE [s1 EXCEPT !.flushes = Append(@, NewFlush(trigger, s.dataBatch))]

FlushBatchSync(s, trigger) ==
  LET s1 == [s EXCEPT !.batchTimer = FALSE]
  IN  IF s.dataBatch = <<>> THEN s1
      ELSE [s1 EXCEPT !.dataBatch = <<>>,
                      !.flushes = Append(@, NewFlush(trigger, s.dataBatch))]

(***************************************************************************)
(* saveToDatabase, lines 159-186.                                          *)
(***************************************************************************)
SaveToDatabaseLate(s, item) ==
  LET s1 == [s EXCEPT !.dataBatch = Append(@, item)]
      s2 == IF ~s1.batchTimer THEN [s1 EXCEPT !.batchTimer = TRUE] ELSE s1
  IN  IF Len(s2.dataBatch) > BatchSize THEN FlushBatchSync(s2, "size") ELSE s2

\* a push that arms no timer
SaveToDatabaseUnarmed(s, item) ==
  LET s1 == [s EXCEPT !.dataBatch = Append(@, item)]
  IN  IF Len(s1.dataBatch) >= BatchSize THEN FlushBatchSync(s1, "size") ELSE s1

SaveToDatabaseSync(s, item) ==
  LET s1 == [s EXCEPT !.dataBatch = Append(@, item)]
      s2 == IF ~s1.batchTimer THEN [s1 EXCEPT !.batchTimer = TRUE] ELSE s1
  IN  IF Len(s2.dataBatch) >= BatchSize THEN FlushBatchSync(s2, "size") ELSE s2

SinkState == [dataBatch |-> dataBatch, batchTimer |-> batchTimer, flushes |-> flushes]

SetSinkState(s) ==
  /\ dataBatch' = s.dataBatch
  /\ batchTimer' = s.batchTimer
  /\ flushes' = s.flushes

\* one call of saveToDatabase(topic, ltp, indexName)
SaveCall(topic, ltp, indexName) ==
  /\ nextSeq < MaxObs
  /\ nextSeq' = nextSeq + 1
  /\ SetSinkState(SaveToDatabaseSync(SinkState, BatchItem(topic, ltp, indexName, nextSeq + 1)))

SaveToDatabase ==
  /\ processAlive
  /\ UNCHANGED <<feedVars, connVars, pool, cleanup>>
  /\ \E topic \in SinkTopics, ltp \in SinkPrices :
       SaveCall(topic, ltp, SplitIndexName(topic))
  /\ UNCHANGED <<topicCache, topics, ltpData, uniqueTopicName,
                 unhandledRejections, processAlive, faults>>

\* the setTimeout callback of line 176: await flushBatch()
TimerFire ==
  /\ processAlive
  /\ UNCHANGED <<feedVars, connVars, pool, cleanup>>
  /\ batchTimer
  /\ SetSinkState(FlushBatchSync(SinkState, "timer"))
  /\ UNCHANGED <<topicCache, topics, ltpData, uniqueTopicName, nextSeq,
                 unhandledRejections, processAlive, faults>>

(***************************************************************************)
(* The asynchronous part of flushBatch, lines 221-257, one action per      *)
(* awaited round trip.  A round trip may fail while faults < MaxFaults.    *)
(***************************************************************************)
FlushIds == DOMAIN flushes

Fault(ok) == IF ok THEN faults' = faults ELSE faults < MaxFaults /\ faults' = faults + 1

\* a rejected flushBatch promise: the timer callback (line 176) awaits it in an
\* async function nobody awaits, the size path (line 184) discards it with void;
\* the runtime then either only reports the rejection or stops the process
Reject(trigger) ==
  IF trigger \in {"timer", "size"}
  THEN /\ unhandledRejections' = unhandledRejections + 1
       /\ processAlive' \in BOOLEAN
  ELSE UNCHANGED <<unhandledRejections, processAlive>>

\* a round trip through the pool itself (pool.connect, pool.query): while the
\* pool is open it fails within the fault budget; once pool.end() was called
\* the pool may refuse it or still serve it
PoolRoundTrip(ok) == IF pool = "open" THEN Fault(ok) ELSE faults' = faults

\* cleanupDatabase, lines 266-272, resumed when the flushBatch it awaits
\* settles: fulfilled, it goes on to pool.end() (line 271); rejected, the
\* rejection leaves cleanupDatabase at line 266
CleanupResume(f, fulfilled) ==
  IF cleanup.pc = "flush" /\ cleanup.flush = f
  THEN IF fulfilled
       THEN pool' = "ending" /\ cleanup' = [cleanup EXCEPT !.pc = "end"]
       ELSE pool' = pool /\ cleanup' = [cleanup EXCEPT !.pc = "failed"]
  ELSE UNCHANGED <<pool, cleanup>>

\* getTopicId, lines 106-117: the cache check, then the SELECT is issued
GetTopicIdStart(cache, item) ==
  IF cache[item.topic] # 0
  THEN [res |-> "done", id |-> cache[item.topic]]
  ELSE [res |-> "select", id |-> 0]

\* Promise.all of line 231 and what follows it: the first rejection goes to
\* the catch of line 246 (ROLLBACK is issued), all fulfilled goes on to the
\* bulk INSERT of line 239
AwaitTopicIds(fl) ==
  IF fl.pc # "resolve" THEN fl
  ELSE IF \E i \in DOMAIN fl.res : fl.res[i] = "error" THEN [fl EXCEPT !.pc = "rollback"]
  ELSE IF \A i \in DOMAIN fl.res : fl.res[i] = "done" THEN [fl EXCEPT !.pc = "insert"]
  ELSE fl

\* line 223: await pool.connect()
ConnectReturn(f) ==
  /\ processAlive
  /\ UNCHANGED <<feedVars, connVars>>
  /\ flushes[f].pc = "connect"
  /\ \E ok \in BOOLEAN :
       /\ PoolRoundTrip(ok)
       /\ IF ok
          THEN /\ flushes' = [flushes EXCEPT ![f].pc = "begin"]
               /\ UNCHANGED <<unhandledRejections, processAlive, pool, cleanup>>
          ELSE /\ flushes' = [flushes EXCEPT ![f].pc = "failed"]
               /\ Reject(flushes[f].trigger)
               /\ CleanupResume(f, FALSE)
  /\ UNCHANGED <<dataBatch, batchTimer, topicCache, topics, ltpData,
                 uniqueTopicName, nextSeq>>

\* line 225: await client.query('BEGIN'), then lines 228-231
BeginReturn(f) ==
  /\ processAlive
  /\ UNCHANGED <<feedVars, connVars, pool, cleanup>>
  /\ flushes[f].pc = "begin"
  /\ \E ok \in BOOLEAN :
       /\ Fault(ok)
       /\ LET fl == flushes[f]
              st == [i \in DOMAIN fl.batch |-> GetTopicIdStart(topicCache, fl.batch[i])]
              started == [fl EXCEPT !.pc = "resolve",
                                    !.res = [i \in DOMAIN fl.batch |-> st[i].res],
                                    !.ids = [i \in DOMAIN fl.batch |-> st[i].id]]
          IN  flushes' = [flushes EXCEPT ![f] =
                            IF ok THEN AwaitTopicIds(started)
                                  ELSE [fl EXCEPT !.pc = "rollback"]]
  /\ UNCHANGED <<dataBatch, batchTimer, topicCache, topics, ltpData,
                 uniqueTopicName, nextSeq, unhandledRejections, processAlive>>

\* rows of the topics table with the given name
TopicRows(name) == { id \in DOMAIN topics : topics[id].topic_name = name }

\* getTopicId, lines 114-129: the SELECT returns
SelectReturn(f, i) ==
  /\ processAlive
  /\ UNCHANGED <<feedVars, connVars, pool, cleanup>>
  /\ flushes[f].res[i] = "select"
  /\ LET fl == flushes[f]
         name == fl.batch[i].topic
     IN  \/ /\ PoolRoundTrip(FALSE)
            /\ flushes' = [flushes EXCEPT ![f] = AwaitTopicIds([fl EXCEPT !.res[i] = "error"])]
            /\ UNCHANGED topicCache
         \/ /\ PoolRoundTrip(TRUE)
            /\ IF TopicRows(name) # {}
               THEN \E id \in TopicRows(name) :
                      /\ topicCache' = [topicCache EXCEPT ![name] = id]
                      /\ flushes' = [flushes EXCEPT ![f] =
                           AwaitTopicIds([fl EXCEPT !.res[i] = "done", !.ids[i] = id])]
               ELSE /\ flushes' = [flushes EXCEPT ![f].res[i] = "insert"]
                    /\ UNCHANGED topicCache
  /\ UNCHANGED <<dataBatch, batchTimer, topics, ltpData, uniqueTopicName, nextSeq,
                 unhandledRejections, processAlive>>

\* the store refuses a second row of the same topic_name when (and only when)
\* its schema declares the column UNIQUE
DuplicateTopicName(name) == uniqueTopicName /\ TopicRows(name) # {}

\* getTopicId, lines 126-133: the INSERT ... RETURNING topic_id returns
InsertReturn(f, i) ==
  /\ processAlive
  /\ UNCHANGED <<feedVars, connVars, pool, cleanup>>
  /\ flushes[f].res[i] = "insert"
  /\ LET fl == flushes[f]
         name == fl.batch[i].topic
         duplicate == DuplicateTopicName(name)
     IN  \/ /\ IF duplicate THEN PoolRoundTrip(TRUE) ELSE PoolRoundTrip(FALSE)
            /\ flushes' = [flushes EXCEPT ![f] = AwaitTopicIds([fl EXCEPT !.res[i] = "error"])]
            /\ UNCHANGED <<topicCache, topics>>
         \/ /\ ~duplicate
            /\ PoolRoundTrip(TRUE)
            /\ topics' = Append(topics, [topic_name |-> name,
                                         index_name |-> fl.batch[i].indexName])
            /\ topicCache' = [topicCache EXCEPT ![name] = Len(topics) + 1]
            /\ flushes' = [flushes EXCEPT ![f] =
                 AwaitTopicIds([fl EXCEPT !.res[i] = "done", !.ids[i] = Len(topics) + 1])]
  /\ UNCHANGED <<dataBatch, batchTimer, ltpData, uniqueTopicName, nextSeq,
                 unhandledRejections, processAlive>>

\* lines 234-236: one row per item of the snapshot
BulkRows(fl) == { [topic_id |-> fl.ids[i], seq |-> fl.batch[i].seq] : i \in DOMAIN fl.batch }

\* line 239: the bulk INSERT returns; its rows are in the open transaction
BulkInsertReturn(f) ==
  /\ processAlive
  /\ UNCHANGED <<feedVars, connVars, pool, cleanup>>
  /\ flushes[f].pc = "insert"
  /\ \E ok \in BOOLEAN :
       /\ Fault(ok)
       /\ flushes' = [flushes EXCEPT ![f] =
            IF ok THEN [flushes[f] EXCEPT !.pc = "commit", !.tx = BulkRows(flushes[f])]
                  ELSE [flushes[f] EXCEPT !.pc = "rollback"]]
  /\ UNCHANGED <<dataBatch, batchTimer, topicCache, topics, ltpData,
                 uniqueTopicName, nextSeq, unhandledRejections, processAlive>>

\* line 244: COMMIT returns; lines 250-252 release the client
CommitReturn(f) ==
  /\ processAlive
  /\ UNCHANGED <<feedVars, connVars>>
  /\ flushes[f].pc = "commit"
  /\ \E ok \in BOOLEAN :
       /\ Fault(ok)
       /\ IF ok
          THEN /\ ltpData' = ltpData \cup flushes[f].tx
               /\ flushes' = [flushes EXCEPT ![f].pc = "done", ![f].tx = {}]
               /\ CleanupResume(f, TRUE)
          ELSE /\ ltpData' = ltpData
               /\ flushes' = [flushes EXCEPT ![f].pc = "rollback"]
               /\ UNCHANGED <<pool, cleanup>>
  /\ UNCHANGED <<dataBatch, batchTimer, topicCache, topics,
                 uniqueTopicName, nextSeq, unhandledRejections, processAlive>>

\* what ROLLBACK leaves of the store: the open transaction is discarded
RollbackCommits(fl) == ltpData \cup fl.tx

RollbackStore(fl) == ltpData

\* lines 247-255: ROLLBACK returns, the client is released, the error is rethrown
RollbackReturn(f) ==
  /\ processAlive
  /\ UNCHANGED <<feedVars, connVars>>
  /\ flushes[f].pc = "rollback"
  /\ ltpData' = RollbackStore(flushes[f])
  /\ flushes' = [flushes EXCEPT ![f].pc = "failed", ![f].tx = {}]
  /\ Reject(flushes[f].trigger)
  /\ CleanupResume(f, FALSE)
  /\ UNCHANGED <<dataBatch, batchTimer, topicCache, topics,
                 uniqueTopicName, nextSeq, faults>>

(***************************************************************************)
(* cleanupDatabase, lines 263-275.                                         *)
(***************************************************************************)
\* the call, up to its first await: the flushBatch of line 266 when the buffer
\* is not empty, else the pool.end() of line 271
CleanupDatabase ==
  /\ processAlive
  /\ UNCHANGED <<feedVars, connVars>>
  /\ cleanup.pc = "idle"
  /\ IF dataBatch # <<>>
     THEN /\ SetSinkState(FlushBatchSync(SinkState, "cleanup"))
          /\ cleanup' = [pc |-> "flush", flush |-> Len(flushes) + 1]
          /\ pool' = pool
     ELSE /\ UNCHANGED <<dataBatch, batchTimer, flushes>>
          /\ cleanup' = [cleanup EXCEPT !.pc = "end"]
          /\ pool' = "ending"
  /\ UNCHANGED <<topicCache, topics, ltpData, uniqueTopicName, nextSeq,
                 unhandledRejections, processAlive, faults>>

\* line 271: pool.end() returns, line 274 follows
PoolEndReturn ==
  /\ processAlive
  /\ UNCHANGED <<feedVars, connVars>>
  /\ cleanup.pc = "end"
  /\ pool' = "ended"
  /\ cleanup' = [cleanup EXCEPT !.pc = "done"]
  /\ UNCHANGED <<dataBatch, batchTimer, topicCache, flushes, topics, ltpData,
                 uniqueTopicName, nextSeq, unhandledRejections, processAlive, faults>>

(***************************************************************************)
(* src/unnamed/part_001: processMessage and the subscription manager.      *)
(***************************************************************************)
\* a JavaScript Map as a function on the keys it holds
MapHas(m, k) == k \in DOMAIN m
MapSet(m, k, v) == [x \in DOMAIN m \cup {k} |-> IF x = k THEN v ELSE m[x]]
EmptyMap == [x \in {} |-> 0]

Abs(x) == IF x < 0 THEN -x ELSE x

\* utils.getStrikeDiff: the strike increment of a configured index
getStrikeDiff(indexName) == 50

\* what utils.getStrikeDiff returns for a name that is no configured index
\* (processMessage calls it with the second segment of any topic under the
\* prefix): nothing, or a default increment
Undefined == 0
OtherStrikeDiffs == { Undefined, 50 }

StrikeDiffs(indexName) ==
  IF indexName \in INDICES THEN { getStrikeDiff(indexName) } ELSE OtherStrikeDiffs

\* Math.round(ltp / diff) * diff
RoundToStrike(ltp, diff) == ((2 * ltp + diff) \div (2 * diff)) * diff

\* utils.getAtmStrike: the multiple of the increment nearest to the price
getAtmStrike(indexName, ltp) == RoundToStrike(ltp, getStrikeDiff(indexName))

\* initializeFirstMessageTracking, lines 168-172
InitializeFirstMessageTracking(flags) == [n \in DOMAIN flags \cup INDICES |-> TRUE]

(***************************************************************************)
(* A payload is what each of the three decoders makes of the message: it   *)
(* throws, or it returns an object whose ltp fields are data (one field    *)
(* for a single record and a textual object, one per element for a batch); *)
(* NotANumber is an ltp that is not of type number.                        *)
(***************************************************************************)
NotANumber == -1
Throws == [ok |-> FALSE, data |-> <<>>]
Decoded(data) == [ok |-> TRUE, data |-> data]
Payload(single, batch, json) == [single |-> single, batch |-> batch, json |-> json]

\* one payload per outcome of the decoding attempts: a single record that
\* would decode as a batch too, a batch with an element without a numeric
\* price, a textual object, an undecodable payload
IndexPayloads ==
  { Payload(Decoded(<<20000>>), Decoded(<<20020, 20030>>), Throws),
    Payload(Throws, Decoded(<<20020, NotANumber, 20030>>), Throws),
    Payload(Throws, Throws, Decoded(<<20030>>)),
    Payload(Throws, Throws, Throws) }

\* and plain single records, and decoded objects without a numeric price
FeedPayloads ==
  IndexPayloads
  \cup { Payload(Decoded(<<p>>), Throws, Throws) : p \in FeedPrices }
  \cup { Payload(Decoded(<<NotANumber>>), Decoded(<<20000>>), Decoded(<<20000>>)),
         Payload(Throws, Throws, Decoded(<<NotANumber>>)) }

Numbers(data) == SelectSeq(data, LAMBDA v : v # NotANumber)

\* a decoder that reports nothing when the last attempt throws
DecodeSilently(payload) ==
  IF payload.single.ok
  THEN [ltpValues |-> Numbers(SubSeq(payload.single.data, 1, 1)), failures |-> 0]
  ELSE IF payload.batch.ok
  THEN [ltpValues |-> Numbers(payload.batch.data), failures |-> 0]
  ELSE IF payload.json.ok
  THEN [ltpValues |-> Numbers(SubSeq(payload.json.data, 1, 1)), failures |-> 0]
  ELSE [ltpValues |-> <<>>, failures |-> 0]

\* a decoder that takes the prices of every format that decodes
DecodeEveryFormat(payload) ==
  [ltpValues |->
     (IF payload.single.ok THEN Numbers(SubSeq(payload.single.data, 1, 1)) ELSE <<>>)
     \o (IF payload.batch.ok THEN Numbers(payload.batch.data) ELSE <<>>)
     \o (IF payload.json.ok THEN Numbers(SubSeq(payload.json.data, 1, 1)) ELSE <<>>),
   failures |-> IF payload.single.ok \/ payload.batch.ok \/ payload.json.ok THEN 0 ELSE 1]

\* lines 25-61: the three decoding attempts, each in the catch of the one
\* before; failures counts the console.error of line 55
Decode(payload) ==
  IF payload.single.ok
  THEN [ltpValues |-> Numbers(SubSeq(payload.single.data, 1, 1)), failures |-> 0]
  ELSE IF payload.batch.ok
  THEN [ltpValues |-> Numbers(payload.batch.data), failures |-> 0]
  ELSE IF payload.json.ok
  THEN [ltpValues |-> Numbers(SubSeq(payload.json.data, 1, 1)), failures |-> 0]
  ELSE [ltpValues |-> <<>>, failures |-> 1]

\* the state processMessage and subscribeToAtmOptions read and write
World ==
  [ indexLtpMap |-> indexLtpMap, atmStrikeMap |-> atmStrikeMap,
    isFirstIndexMessage |-> isFirstIndexMessage,
    activeSubscriptions |-> activeSubscriptions, subscribeCalls |-> subscribeCalls,
    decodeFailures |-> decodeFailures,
    sink |-> SinkState, nextSeq |-> nextSeq ]

SetWorld(w) ==
  /\ indexLtpMap' = w.indexLtpMap
  /\ atmStrikeMap' = w.atmStrikeMap
  /\ isFirstIndexMessage' = w.isFirstIndexMessage
  /\ activeSubscriptions' = w.activeSubscriptions
  /\ subscribeCalls' = w.subscribeCalls
  /\ decodeFailures' = w.decodeFailures
  /\ SetSinkState(w.sink)
  /\ nextSeq' = w.nextSeq

\* client.subscribe(topic)
ClientSubscribe(w, topic) ==
  [w EXCEPT !.subscribeCalls =
     MapSet(@, topic, IF MapHas(@, topic) THEN @[topic] + 1 ELSE 1)]

\* subscribeToAllIndices, lines 154-161
SubscribeToAllIndicesSync(w) ==
  LET topicsOf == { IndexTopic(n) : n \in INDICES }
      called == [w EXCEPT !.subscribeCalls =
                   [t \in DOMAIN @ \cup topicsOf |->
                      IF t \in topicsOf
                      THEN (IF t \in DOMAIN @ THEN @[t] + 1 ELSE 1)
                      ELSE @[t]]]
  IN  [called EXCEPT !.activeSubscriptions = @ \cup topicsOf]

\* a leg that subscribes whatever getOptionToken returned
SubscribeLegUnchecked(w, token) ==
  IF OptionTopic(token) \in w.activeSubscriptions THEN w
  ELSE [ClientSubscribe(w, OptionTopic(token)) EXCEPT
          !.activeSubscriptions = @ \cup {OptionTopic(token)}]

\* subscribeToAtmOptions, lines 209-216 and 219-226: one leg
SubscribeLeg(w, token) ==
  IF token = Null THEN w
  ELSE IF OptionTopic(token) \in w.activeSubscriptions THEN w
  ELSE [ClientSubscribe(w, OptionTopic(token)) EXCEPT
          !.activeSubscriptions = @ \cup {OptionTopic(token)}]

\* subscribeToAtmOptions, lines 194-200
Strikes(strikeDiff, atmStrike) ==
  [j \in 1..(2 * StrikeRange + 1) |-> atmStrike + (j - 1 - StrikeRange) * strikeDiff]

\* lines 101-116: the metadata and the saveToDatabase call of one tick
SaveTick(w, proc) ==
  LET indexName == IF StartsWithIndexPrefix(proc.topic)
                   THEN SplitIndexName(proc.topic) ELSE <<>>
      item == BatchItem(proc.topic, Head(proc.ltps), indexName, w.nextSeq + 1)
  IN  [w EXCEPT !.sink = SaveToDatabaseSync(@, item), !.nextSeq = @ + 1]

\* the tick is done: the loop of line 64 moves to the next price
NextTick(proc, seq) ==
  [proc EXCEPT !.ltps = Tail(@), !.saved = Append(@, seq),
               !.pc = IF Len(proc.ltps) = 1 THEN "done" ELSE "loop"]

\* a trigger that waits for a move of two increments
TriggersCoarse(isFirstMessage, prevDefined, atmStrike, recorded, strikeDiff) ==
  \/ isFirstMessage
  \/ /\ prevDefined
     /\ strikeDiff # Undefined
     /\ Abs(atmStrike - recorded) >= 2 * strikeDiff

\* lines 84-86: the expansion trigger; a comparison with an undefined
\* increment is false
Triggers(isFirstMessage, prevDefined, atmStrike, recorded, strikeDiff) ==
  \/ isFirstMessage
  \/ /\ prevDefined
     /\ strikeDiff # Undefined
     /\ Abs(atmStrike - recorded) >= strikeDiff

\* lines 64-117: the loop over ltpValues from the current price on, up to the
\* await of line 92 (the first token fetch of an expansion) or to its end
RECURSIVE RunTicks(_, _)
RunTicks(w, proc) ==
  IF proc.ltps = <<>> THEN [w |-> w, proc |-> [proc EXCEPT !.pc = "done"]]
  ELSE IF ~StartsWithIndexPrefix(proc.topic)
  THEN RunTicks(SaveTick(w, proc), NextTick(proc, w.nextSeq + 1))
  ELSE
    LET ltp == Head(proc.ltps)
        indexName == SplitIndexName(proc.topic)
        strikeDiff == proc.strikeDiff
        prevDefined == MapHas(w.indexLtpMap, indexName)
        w1 == [w EXCEPT !.indexLtpMap = MapSet(@, indexName, ltp)]
        atmStrike == IF strikeDiff = Undefined THEN NotANumber
                     ELSE RoundToStrike(ltp, strikeDiff)
        isFirstMessage == /\ MapHas(w.isFirstIndexMessage, indexName)
                          /\ w.isFirstIndexMessage[indexName]
        hasRecorded == MapHas(w.atmStrikeMap, indexName)
        recorded == IF hasRecorded THEN w.atmStrikeMap[indexName] ELSE 0
        trigger == Triggers(isFirstMessage, prevDefined, atmStrike, recorded, strikeDiff)
        w2 == IF trigger THEN [w1 EXCEPT !.atmStrikeMap = MapSet(@, indexName, atmStrike)]
                         ELSE w1
        decision == [indexName |-> indexName, seenBefore |-> prevDefined,
                     isFirstMessage |-> isFirstMessage, hasRecorded |-> hasRecorded,
                     delta |-> IF strikeDiff = Undefined THEN 0
                               ELSE Abs(atmStrike - recorded),
                     triggered |-> trigger, ltp |-> ltp,
                     recordedAfter |-> IF MapHas(w2.atmStrikeMap, indexName)
                                       THEN w2.atmStrikeMap[indexName] ELSE Undefined]
        decided == [proc EXCEPT !.decisions = Append(@, decision)]
    IN  IF trigger
        THEN [w |-> w2,
              proc |-> [decided EXCEPT !.pc = "fetch",
                                       !.isFirstMessage = isFirstMessage,
                                       !.strikes = Strikes(strikeDiff, atmStrike),
                                       !.si = 1, !.leg = "ce", !.ceToken = Null]]
        ELSE RunTicks(SaveTick(w2, decided), NextTick(decided, w2.nextSeq + 1))

\* lines 94-117 after the await of line 92, then the rest of the loop
AfterExpansion(w, proc) ==
  LET indexName == SplitIndexName(proc.topic)
      w1 == IF proc.isFirstMessage
            THEN [w EXCEPT !.isFirstIndexMessage = MapSet(@, indexName, FALSE)]
            ELSE w
  IN  RunTicks(SaveTick(w1, proc), NextTick(proc, w1.nextSeq + 1))

NewProc(topic, payload, ltpValues, strikeDiff) ==
  [ topic |-> topic, payload |-> payload, strikeDiff |-> strikeDiff,
    ltps |-> ltpValues, pc |-> "loop", saved |-> <<>>,
    decisions |-> <<>>, isFirstMessage |-> FALSE, strikes |-> <<>>, si |-> 0,
    leg |-> "ce", ceToken |-> Null ]

\* subscribeToAllIndices(client), called by the connect handler of the caller
SubscribeToAllIndices ==
  /\ processAlive
  /\ \A n \in INDICES :
       MapHas(subscribeCalls, IndexTopic(n)) => subscribeCalls[IndexTopic(n)] < MaxSubscribeAll
  /\ SetWorld(SubscribeToAllIndicesSync(World))
  /\ UNCHANGED <<topicCache, topics, ltpData, uniqueTopicName, unhandledRejections,
                 processAlive, faults, pool, cleanup, procs, connVars>>

\* processMessage(topic, message, client), lines 12-121, up to its first
\* await, for a message of the given payloads on one of the given topics
Deliver(deliverable, payloads) ==
  /\ processAlive
  /\ Len(procs) < MaxMsgs
  /\ \E topic \in deliverable \cap activeSubscriptions, payload \in payloads :
       \E strikeDiff \in StrikeDiffs(SplitIndexName(topic)) :
         LET decoded == Decode(payload)
             w == [World EXCEPT !.decodeFailures = @ + decoded.failures]
             r == RunTicks(w, NewProc(topic, payload, decoded.ltpValues, strikeDiff))
         IN  /\ SetWorld(r.w)
             /\ procs' = Append(procs, r.proc)
  /\ UNCHANGED <<topicCache, topics, ltpData, uniqueTopicName, unhandledRejections,
                 processAlive, faults, pool, cleanup, connVars>>

\* a message on any subscribed channel
ProcessMessage == Deliver(FeedTopics, FeedPayloads)

\* a message on a base index channel
ProcessIndexMessage == Deliver(IndexTopics, IndexPayloads)

\* getOptionToken, lines 241-265, returns to subscribeToAtmOptions (line 205
\* or 206); after the PE token lines 209-226 run, and after the last strike
\* processMessage resumes at line 94
TokenReturn(p) ==
  /\ processAlive
  /\ procs[p].pc = "fetch"
  /\ \E ok \in BOOLEAN :
       /\ Fault(ok)
       /\ LET proc == procs[p]
              indexName == SplitIndexName(proc.topic)
              token == IF ok THEN Token(indexName, proc.strikes[proc.si], proc.leg)
                             ELSE Null
          IN  IF proc.leg = "ce"
              THEN /\ procs' = [procs EXCEPT ![p].ceToken = token, ![p].leg = "pe"]
                   /\ SetWorld(World)
              ELSE LET w1 == SubscribeLeg(SubscribeLeg(World, proc.ceToken), token)
                   IN  IF proc.si < Len(proc.strikes)
                       THEN /\ procs' = [procs EXCEPT ![p].si = @ + 1, ![p].leg = "ce",
                                                      ![p].ceToken = Null]
                            /\ SetWorld(w1)
                       ELSE LET r == AfterExpansion(w1, proc)
                            IN  /\ procs' = [procs EXCEPT ![p] = r.proc]
                                /\ SetWorld(r.w)
  /\ UNCHANGED <<topicCache, topics, ltpData, uniqueTopicName, unhandledRejections,
                 processAlive, pool, cleanup, connVars>>

FeedInit ==
  /\ indexLtpMap = EmptyMap
  /\ atmStrikeMap = EmptyMap
  /\ isFirstIndexMessage = InitializeFirstMessageTracking(EmptyMap)
  /\ activeSubscriptions = {}
  /\ subscribeCalls = EmptyMap
  /\ procs = <<>>
  /\ decodeFailures = 0

(***************************************************************************)
(* src/unnamed/part_000: the MQTT client, its reconnect backoff and its    *)
(* health check.  Delays are exact fractions of a millisecond, as the      *)
(* doubles of the code are for these values; the clock counts seconds.     *)
(***************************************************************************)
MAX_RECONNECT_DELAY == 5000
HEALTH_CHECK_INTERVAL == 5
StaleAfter == 10
InitialReconnectPeriod == 100

RECURSIVE Pow(_, _)
Pow(b, n) == IF n = 0 THEN 1 ELSE b * Pow(b, n - 1)

RECURSIVE Gcd(_, _)
Gcd(a, b) == IF b = 0 THEN a ELSE Gcd(b, a % b)

Fraction(num, den) == [num |-> num \div Gcd(num, den), den |-> den \div Gcd(num, den)]

\* Math.min(a, cap) of a fraction and an integer
MinWithCap(a, cap) == IF a.num > cap * a.den THEN Fraction(cap, 1) ELSE a

\* 100 * Math.pow(1.5, n), with 1.5 = 3/2
Backoff(n) == Fraction(100 * Pow(3, n), Pow(2, n))

\* line 54 computed from the count before the increment of line 53
ReconnectDelayBeforeIncrement(count) == MinWithCap(Backoff(count - 1), MAX_RECONNECT_DELAY)

\* line 54: Math.min(100 * Math.pow(1.5, reconnectCount), MAX_RECONNECT_DELAY)
ReconnectDelay(count) == MinWithCap(Backoff(count), MAX_RECONNECT_DELAY)

\* startHealthCheck, lines 91-96: a set interval is cleared, a new one is set
StartHealthCheck ==
  /\ healthCheckTimer' = TRUE
  /\ healthCheckDue' = now + HEALTH_CHECK_INTERVAL
  /\ liveIntervals' = (IF healthCheckTimer THEN liveIntervals - 1 ELSE liveIntervals) + 1

\* the close handler leaves the interval running
KeepHealthCheck ==
  /\ healthCheckTimer' = healthCheckTimer
  /\ liveIntervals' = liveIntervals

\* lines 60-63: a set interval is cleared
ClearHealthCheck ==
  /\ healthCheckTimer' = FALSE
  /\ liveIntervals' = IF healthCheckTimer THEN liveIntervals - 1 ELSE liveIntervals

\* client.on('connect'), lines 46-49; the CONNACK that makes the client emit
\* connect is a received packet, so the packetreceive handler of lines 71-73
\* has just run
OnConnect ==
  /\ session = "connecting"
  /\ session' = "connected"
  /\ lastPacketTime' = now
  /\ reconnectCount' = 0
  /\ StartHealthCheck
  /\ UNCHANGED <<reconnectPeriod, now, sinkVars, feedVars>>

\* client.on('reconnect'), lines 52-56: the client starts another attempt
OnReconnect ==
  /\ session = "closed"
  /\ reconnectCount < MaxReconnect
  /\ session' = "connecting"
  /\ reconnectCount' = reconnectCount + 1
  /\ reconnectPeriod' = ReconnectDelay(reconnectCount + 1)
  /\ UNCHANGED <<healthCheckTimer, healthCheckDue, liveIntervals, lastPacketTime, now,
                 sinkVars, feedVars>>

\* client.on('close'), lines 59-64: the connection is lost, an attempt fails,
\* or a forced end completes
OnClose ==
  /\ session \in {"connecting", "connected", "closing"}
  /\ session' = "closed"
  /\ ClearHealthCheck
  /\ UNCHANGED <<reconnectCount, reconnectPeriod, healthCheckDue, lastPacketTime, now,
                 sinkVars, feedVars>>

\* client.on('packetsend') and client.on('packetreceive'), lines 67-73
OnPacket ==
  /\ session \in {"connecting", "connected"}
  /\ lastPacketTime # now
  /\ lastPacketTime' = now
  /\ UNCHANGED <<reconnectCount, reconnectPeriod, healthCheckTimer, healthCheckDue,
                 liveIntervals, now, session, sinkVars, feedVars>>

\* a check that lets twice the threshold pass
ConnectionStaleLate(timeSinceLastPacket) == timeSinceLastPacket > 2 * StaleAfter

\* line 100: timeSinceLastPacket > 10000
ConnectionStale(timeSinceLastPacket) == timeSinceLastPacket > StaleAfter

\* the setInterval callback, lines 96-106: on a stale connection
\* client.end(true, ...) closes the session, and its callback asks to reconnect
HealthCheck ==
  /\ healthCheckTimer
  /\ now = healthCheckDue
  /\ healthCheckDue' = now + HEALTH_CHECK_INTERVAL
  /\ session' = IF ConnectionStale(now - lastPacketTime) /\ session = "connected"
                THEN "closing" ELSE session
  /\ UNCHANGED <<reconnectCount, reconnectPeriod, healthCheckTimer, liveIntervals,
                 lastPacketTime, now, sinkVars, feedVars>>

\* a second passes; a due health check runs before the clock moves on
Tick ==
  /\ now < MaxTime
  /\ healthCheckTimer => now < healthCheckDue
  /\ now' = now + 1
  /\ UNCHANGED <<reconnectCount, reconnectPeriod, healthCheckTimer, healthCheckDue,
                 liveIntervals, lastPacketTime, session, sinkVars, feedVars>>

\* createClient, lines 6-10 and 27, 43
ConnInit ==
  /\ reconnectCount = 0
  /\ reconnectPeriod = Fraction(InitialReconnectPeriod, 1)
  /\ healthCheckTimer = FALSE
  /\ healthCheckDue = 0
  /\ liveIntervals = 0
  /\ lastPacketTime = 0
  /\ now = 0
  /\ session = "connecting"

(***************************************************************************)
(* The storage sink on its own: saveToDatabase called by its environment.  *)
(***************************************************************************)
SinkInitial ==
  /\ dataBatch = <<>>
  /\ batchTimer = FALSE
  /\ topicCache = [t \in SinkTopics |-> 0]
  /\ flushes = <<>>
  /\ topics = <<>>
  /\ ltpData = {}
  /\ uniqueTopicName \in BOOLEAN
  /\ nextSeq = 0
  /\ unhandledRejections = 0
  /\ processAlive = TRUE
  /\ faults = 0
  /\ pool = "open"
  /\ cleanup = [pc |-> "idle", flush |-> 0]

SinkInit == SinkInitial /\ FeedInit /\ ConnInit

FlushStep ==
  \/ \E f \in FlushIds : ConnectReturn(f)
  \/ \E f \in FlushIds : BeginReturn(f)
  \/ \E f \in FlushIds : \E i \in DOMAIN flushes[f].batch : SelectReturn(f, i)
  \/ \E f \in FlushIds : \E i \in DOMAIN flushes[f].batch : InsertReturn(f, i)
  \/ \E f \in FlushIds : BulkInsertReturn(f)
  \/ \E f \in FlushIds : CommitReturn(f)
  \/ \E f \in FlushIds : RollbackReturn(f)

SinkNext ==
  \/ SaveToDatabase
  \/ TimerFire
  \/ FlushStep

SpecSink == SinkInit /\ [][SinkNext]_vars

\* the same, with the flush timeout firing once it is armed and stays armed
\* (setTimeout of line 176 on a running event loop)
SpecSinkLive == SinkInit /\ [][SinkNext]_vars /\ WF_vars(TimerFire)

(***************************************************************************)
(* The storage sink with its shutdown: cleanupDatabase called once, at any  *)
(* moment, by the shutdown path of its environment.                        *)
(***************************************************************************)
ShutdownNext ==
  \/ SinkNext
  \/ CleanupDatabase
  \/ PoolEndReturn

SpecShutdown == SinkInit /\ [][ShutdownNext]_vars

(***************************************************************************)
(* The message path: messages delivered on subscribed channels, chain      *)
(* expansions in flight, subscribeToAllIndices on connect events.  The     *)
(* flushes its saveToDatabase calls start are explored in SpecSink.        *)
(***************************************************************************)
FeedNext ==
  \/ SubscribeToAllIndices
  \/ ProcessMessage
  \/ \E p \in DOMAIN procs : TokenReturn(p)

\* the store is not reached in SpecFeed and SpecConn: one schema is enough
FeedSpecInit == SinkInit /\ uniqueTopicName

SpecFeed == FeedSpecInit /\ [][FeedNext]_vars

(***************************************************************************)
(* The message path of the base index channels alone.                      *)
(***************************************************************************)
IndexFeedNext ==
  \/ SubscribeToAllIndices
  \/ ProcessIndexMessage
  \/ \E p \in DOMAIN procs : TokenReturn(p)

SpecIndexFeed == FeedSpecInit /\ [][IndexFeedNext]_vars

(***************************************************************************)
(* Properties of the storage sink.                                         *)
(***************************************************************************)
Seqs(batch) == { batch[i].seq : i \in DOMAIN batch }

\* how many places (the buffer, the snapshots) hold observation n
Holders(n) ==
  Cardinality({ i \in DOMAIN dataBatch : dataBatch[i].seq = n })
  + Cardinality({ p \in UNION { { <<f, i>> : i \in DOMAIN flushes[f].batch } : f \in FlushIds } :
                    flushes[p[1]].batch[p[2]].seq = n })

\* C1 (as claimed): Topic Record uniqueness - under any interleaving of
\* getTopicId calls the store holds at most one Topic Record per subscription
\* identifier (and exactly one once a getTopicId for it has returned an id).
C1_TopicRecordUnique ==
  \A t \in SinkTopics :
    /\ Cardinality(TopicRows(t)) <= 1
    /\ (topicCache[t] # 0 => Cardinality(TopicRows(t)) = 1)

\* C2: atomic buffer swap - every enqueued observation is held by exactly one
\* of the buffer and the flush snapshots, and a snapshot never changes once
\* taken, so an observation enqueued while a flush is being written goes to
\* the buffer (the next batch) and not to the snapshot in flight.
C2_EveryObservationOnce == \A n \in 1..nextSeq : Holders(n) = 1

C2_SnapshotsFrozen ==
  \A f \in FlushIds : f \in DOMAIN flushes' /\ flushes'[f].batch = flushes[f].batch

C2_AtomicBufferSwap == [](C2_EveryObservationOnce) /\ [][C2_SnapshotsFrozen]_vars

\* an observation was enqueued while an earlier snapshot was still being
\* written, and has since been taken by a later flush
C2_Witness ==
  \E f, g \in FlushIds :
    /\ f < g
    /\ flushes[f].pc \in {"resolve", "insert", "commit"}
    /\ flushes[g].pc = "connect"
    /\ dataBatch # <<>>

\* C3: all-or-nothing durable write - a flush that failed has none of its
\* snapshot's observations in the store, a flush that succeeded has all of
\* them, and before either no observation of the snapshot is durable.
C3_AllOrNothing ==
  \A f \in FlushIds :
    LET stored == { r.seq : r \in ltpData } \cap Seqs(flushes[f].batch)
    IN  IF flushes[f].pc = "done" THEN stored = Seqs(flushes[f].batch)
                                  ELSE stored = {}

\* one flush committed, another was rolled back after its rows were inserted
C3_Witness ==
  \E f, g \in FlushIds :
    /\ flushes[f].pc = "done"
    /\ flushes[g].pc = "failed"
    /\ \A i \in DOMAIN flushes[g].res : flushes[g].res[i] = "done"
    /\ ltpData # {}

\* C4 (as claimed): a failed flush is contained - its failure never becomes an
\* unhandled error and the process keeps running.
C4_FlushFailureContained == unhandledRejections = 0 /\ processAlive

\* C9: size-triggered flush - a saveToDatabase call that brings the buffer to
\* BatchSize observations starts exactly one flush whose snapshot is the
\* buffer in enqueue order, and leaves the buffer empty and the timer cleared;
\* a call that leaves the buffer shorter starts no flush.
C9_SaveStep ==
  nextSeq' = nextSeq + 1 =>
    IF Len(dataBatch) + 1 = BatchSize
    THEN /\ Len(flushes') = Len(flushes) + 1
         /\ flushes'[Len(flushes')].trigger = "size"
         /\ Len(flushes'[Len(flushes')].batch) = BatchSize
         /\ SubSeq(flushes'[Len(flushes')].batch, 1, BatchSize - 1) = dataBatch
         /\ flushes'[Len(flushes')].batch[BatchSize].seq = nextSeq'
         /\ dataBatch' = <<>>
         /\ batchTimer' = FALSE
    ELSE /\ Len(dataBatch) + 1 < BatchSize
         /\ flushes' = flushes
         /\ Len(dataBatch') = Len(dataBatch) + 1
         /\ batchTimer'

C9_SizeTriggeredFlush == [][C9_SaveStep]_vars

\* from the empty buffer, BatchSize calls and no timer fire: one flush, of all
C9_Witness ==
  /\ Len(flushes) = 1
  /\ flushes[1].trigger = "size"
  /\ Seqs(flushes[1].batch) = 1..BatchSize
  /\ nextSeq = BatchSize
  /\ dataBatch = <<>>
  /\ ~batchTimer

\* C16: flush timer liveness - between any two steps a non-empty buffer has
\* its flush timer armed (a push into the empty buffer arms it, a step that
\* starts a flush leaves it cleared and the buffer empty), so with the timer
\* firing once armed every enqueued observation is eventually in the snapshot
\* of a flush, as long as the process runs.
C16_TimerArmed == dataBatch # <<>> => batchTimer

C16_TimerStep ==
  /\ (dataBatch = <<>> /\ dataBatch' # <<>>) => batchTimer'
  /\ Len(flushes') > Len(flushes) => (~batchTimer' /\ dataBatch' = <<>>)

C16_FlushTimerLiveness ==
  /\ [](C16_TimerArmed)
  /\ [][C16_TimerStep]_vars
  /\ \A n \in 1..MaxObs :
       (n \in Seqs(dataBatch)) ~>
         ((\E f \in FlushIds : n \in Seqs(flushes[f].batch)) \/ ~processAlive)

\* the timer has fired and flushed, and a later push has armed it again
C16_Witness ==
  /\ \E f \in FlushIds : flushes[f].trigger = "timer"
  /\ dataBatch # <<>>
  /\ batchTimer
  /\ processAlive

\* C11 (as claimed): shutdown ordering - when cleanupDatabase is called with a
\* non-empty buffer, pool.end() is not called before the final flush of that
\* buffer has committed or rolled back, and once that flush has completed,
\* either way, pool.end() has been called.
C11_ShutdownOrdering ==
  cleanup.flush # 0 =>
    /\ pool # "open" => flushes[cleanup.flush].pc \in {"done", "failed"}
    /\ flushes[cleanup.flush].pc \in {"done", "failed"} => pool # "open"

\* a flush started by the size threshold (line 184) or by the timer (line 177)
\* that is past its buffer swap (line 219) and has neither committed nor
\* rolled back
Unawaited(f) ==
  /\ flushes[f].trigger \in {"size", "timer"}
  /\ flushes[f].pc \notin {"done", "failed"}

\* a step in which cleanupDatabase calls pool.end() (line 271) finds no
\* earlier size- or timer-triggered flush still in flight
C21_CloseStep ==
  (pool = "open" /\ pool' # "open") => \A f \in FlushIds : ~Unawaited(f)

\* C21 (as claimed): no flush outlives the store - cleanupDatabase never
\* closes the connection pool while a previously started size-triggered or
\* timer-triggered flush is still between its buffer swap and its commit or
\* rollback.
C21_NoFlushOutlivesStore == [][C21_CloseStep]_vars

(***************************************************************************)
(* The connection manager on its own.                                      *)
(***************************************************************************)
ConnNext ==
  \/ OnConnect
  \/ OnReconnect
  \/ OnClose
  \/ OnPacket
  \/ HealthCheck
  \/ Tick

SpecConn == FeedSpecInit /\ [][ConnNext]_vars

(***************************************************************************)
(* Properties of the message path.                                         *)
(***************************************************************************)
ProcIds == DOMAIN procs

\* the trigger decisions taken so far for an index, as <<invocation, tick>>
DecisionsOf(indexName) ==
  { d \in UNION { { <<p, k>> : k \in DOMAIN procs[p].decisions } : p \in ProcIds } :
      procs[d[1]].decisions[d[2]].indexName = indexName }

Decision(d) == procs[d[1]].decisions[d[2]]

\* C5 (as claimed): for every base index whose first-message flag was
\* initialised, the first observation on its channel triggers an expansion
\* whatever its price, and it is the only expansion started as the index's
\* first-message expansion, also when further messages arrive while it is in
\* flight.
C5_FirstObservationExpandsOnce ==
  \A n \in INDICES :
    /\ \A d \in DecisionsOf(n) : ~Decision(d).seenBefore => Decision(d).triggered
    /\ Cardinality({ d \in DecisionsOf(n) : Decision(d).isFirstMessage }) <= 1

\* C6 (as claimed): for an index that has already seen its first message, an
\* observation triggers chain expansion if and only if its reference strike
\* differs from the recorded reference strike by at least the strike increment.
C6_ExpansionThreshold ==
  \A n \in INDICES : \A d \in DecisionsOf(n) :
    Decision(d).seenBefore =>
      (Decision(d).triggered <=> Decision(d).delta >= getStrikeDiff(n))

\* C7 (as claimed): subscribe idempotence - no identifier is ever subscribed
\* on the transport more than once.
C7_SubscribedAtMostOnce ==
  \A t \in DOMAIN subscribeCalls : subscribeCalls[t] <= 1

\* C10 (as claimed): per-identifier ordering - of two ticks delivered on the
\* same identifier the earlier delivered one is enqueued first.
C10_EnqueueInDeliveryOrder ==
  \A p, q \in ProcIds :
    (p < q /\ procs[p].topic = procs[q].topic /\ procs[q].saved # <<>>) =>
      /\ procs[p].ltps = <<>>
      /\ \A i \in DOMAIN procs[p].saved, j \in DOMAIN procs[q].saved :
           procs[p].saved[i] < procs[q].saved[j]

\* every decoder throws on the payload
AllThrow(payload) == ~payload.single.ok /\ ~payload.batch.ok /\ ~payload.json.ok

NumericCount(data) == Cardinality({ i \in DOMAIN data : data[i] # NotANumber })

\* C13: decode failure - a payload on which all three decoding attempts fail
\* forwards no observation, is reported as exactly one decode failure (and
\* failures are reported for such payloads only), and its processing leaves
\* the index state, the subscriptions and the sink's buffer unchanged.
C13_FailuresCounted ==
  decodeFailures = Cardinality({ p \in ProcIds : AllThrow(procs[p].payload) })

C13_FailureStep ==
  (Len(procs') = Len(procs) + 1 /\ AllThrow(procs'[Len(procs')].payload)) =>
    /\ procs'[Len(procs')].saved = <<>>
    /\ procs'[Len(procs')].pc = "done"
    /\ decodeFailures' = decodeFailures + 1
    /\ UNCHANGED <<indexLtpMap, atmStrikeMap, isFirstIndexMessage, activeSubscriptions,
                   subscribeCalls, dataBatch, batchTimer, flushes, nextSeq>>

C13_DecodeFailure == [](C13_FailuresCounted) /\ [][C13_FailureStep]_vars

\* an undecodable payload arrived after the index state and the option
\* subscriptions had been built up
C13_Witness ==
  \E p \in ProcIds :
    /\ p > 1
    /\ AllThrow(procs[p].payload)
    /\ decodeFailures = 1
    /\ indexLtpMap # EmptyMap
    /\ activeSubscriptions \cap OptionTopics # {}

\* the observations processMessage forwards for a payload once it has
\* finished: those of the first format that decodes
ExpectedCount(payload) ==
  IF payload.single.ok THEN NumericCount(SubSeq(payload.single.data, 1, 1))
  ELSE IF payload.batch.ok THEN NumericCount(payload.batch.data)
  ELSE IF payload.json.ok THEN NumericCount(SubSeq(payload.json.data, 1, 1))
  ELSE 0

\* C14: decode counts - decoding stops at the first format that succeeds and
\* a processMessage that has finished has forwarded exactly one observation
\* per extracted price: one for a single record with a numeric price (also
\* when the payload would decode as a batch too), and for a batch as many as
\* it has elements with a numeric price; before it has finished it has
\* forwarded no more than that, and no observation twice.
C14_DecodeCounts ==
  \A p \in ProcIds :
    /\ Len(procs[p].saved) <= ExpectedCount(procs[p].payload)
    /\ procs[p].pc = "done" => Len(procs[p].saved) = ExpectedCount(procs[p].payload)
    /\ Cardinality({ procs[p].saved[i] : i \in DOMAIN procs[p].saved }) = Len(procs[p].saved)
    /\ \A q \in ProcIds : p # q =>
         \A i \in DOMAIN procs[p].saved, j \in DOMAIN procs[q].saved :
           procs[p].saved[i] # procs[q].saved[j]

\* a batch with a non-numeric element forwarded its two prices, and a payload
\* that decodes both as a single record and as a batch forwarded one
C14_Witness ==
  \E p, q \in ProcIds :
    /\ procs[p].pc = "done"
    /\ ~procs[p].payload.single.ok
    /\ NumericCount(procs[p].payload.batch.data) = 2
    /\ Len(procs[p].payload.batch.data) = 3
    /\ Len(procs[p].saved) = 2
    /\ procs[q].pc = "done"
    /\ procs[q].payload.single.ok /\ procs[q].payload.batch.ok
    /\ Len(procs[q].payload.batch.data) = 2
    /\ Len(procs[q].saved) = 1

\* C15 (as claimed): non-blocking expansion - the tick that triggers a chain
\* expansion is enqueued without waiting for the expansion: no processMessage
\* waits for a token resolution with its triggering tick not yet enqueued.
C15_TriggeringTickEnqueued ==
  \A p \in ProcIds :
    procs[p].pc = "fetch" => Len(procs[p].saved) >= Len(procs[p].decisions)

\* the subscribe calls issued for a topic so far
Calls(calls, topic) == IF MapHas(calls, topic) THEN calls[topic] ELSE 0

\* what handling a leg does to its topic: nothing when its token resolution
\* failed or the topic is active, else one subscribe call and the topic added
LegHandled(topic, resolved) ==
  IF resolved /\ topic \notin activeSubscriptions
  THEN /\ topic \in activeSubscriptions'
       /\ Calls(subscribeCalls', topic) = Calls(subscribeCalls, topic) + 1
  ELSE /\ topic \in activeSubscriptions' <=> topic \in activeSubscriptions
       /\ Calls(subscribeCalls', topic) = Calls(subscribeCalls, topic)

\* C18: leg isolation - in every step of an expansion: the return of the CE
\* token resolution, failed or not, subscribes nothing and goes on to the PE
\* resolution of the same strike; the return of the PE resolution handles the
\* two legs of the strike independently (a leg whose resolution failed issues
\* no subscribe call, a leg whose token resolved and is not active is
\* subscribed and added), touches no other topic, and goes on to the next
\* strike or out of the expansion: no leg is fetched again.
C18_ExpansionStep ==
  \A p \in ProcIds :
    (procs[p].pc = "fetch" /\ procs'[p] # procs[p]) =>
      LET proc == procs[p]
          indexName == SplitIndexName(proc.topic)
          ceTopic == OptionTopic(Token(indexName, proc.strikes[proc.si], "ce"))
          peTopic == OptionTopic(Token(indexName, proc.strikes[proc.si], "pe"))
          failed == faults' = faults + 1
      IN  IF proc.leg = "ce"
          THEN /\ UNCHANGED <<activeSubscriptions, subscribeCalls>>
               /\ procs'[p].pc = "fetch" /\ procs'[p].si = proc.si /\ procs'[p].leg = "pe"
               /\ failed <=> procs'[p].ceToken = Null
          ELSE /\ LegHandled(ceTopic, proc.ceToken # Null)
               /\ LegHandled(peTopic, ~failed)
               /\ \A t \in (DOMAIN subscribeCalls' \cup activeSubscriptions') \ {ceTopic, peTopic} :
                    /\ t \in activeSubscriptions
                    /\ Calls(subscribeCalls', t) = Calls(subscribeCalls, t)
               /\ \/ procs'[p].pc # "fetch"
                  \/ Len(procs'[p].decisions) > Len(proc.decisions)
                  \/ procs'[p].si = proc.si + 1 /\ procs'[p].leg = "ce"

C18_LegIsolation == [][C18_ExpansionStep]_vars

\* an expansion is over in which the token resolution of the CE leg failed
\* and the PE leg of the same strike was subscribed
C18_Witness ==
  \E n \in INDICES :
    /\ faults = 1
    /\ procs # <<>>
    /\ \A p \in ProcIds : procs[p].pc = "done"
    /\ OptionTopic(Token(n, 20000, "ce")) \notin activeSubscriptions
    /\ OptionTopic(Token(n, 20000, "pe")) \in activeSubscriptions
    /\ Calls(subscribeCalls, OptionTopic(Token(n, 20000, "pe"))) = 1

\* an identifier of the form prefix/NSE_FO|token
IsOptionChannel(topic) ==
  /\ Len(topic) = 2
  /\ topic[1] = IndexPrefix
  /\ Len(topic[2]) = 2
  /\ topic[2][1] = "NSE_FO"

\* C19 (as claimed): option-channel frame - a step of a processMessage whose
\* tick arrived on an option channel leaves the last-price map, the recorded
\* reference strikes, the first-message flags and the Active Subscription Set
\* unchanged and starts no expansion; it enqueues once per price.
C19_OptionStep ==
  \A p \in DOMAIN procs' :
    (/\ IsOptionChannel(procs'[p].topic)
     /\ (p \in DOMAIN procs => procs'[p] # procs[p])) =>
      /\ UNCHANGED <<indexLtpMap, atmStrikeMap, isFirstIndexMessage, activeSubscriptions>>
      /\ procs'[p].pc = "done"
      /\ Len(procs'[p].saved) = ExpectedCount(procs'[p].payload)

C19_OptionChannelFrame == [][C19_OptionStep]_vars

\* C20: reference strike tracking - for every configured index (its
\* first-message flag is initialised), right after each tick on its channel
\* has passed the trigger decision the recorded reference strike is the
\* reference strike of that tick's price, a multiple of the increment,
\* whatever expansions are in flight.
C20_ReferenceStrikeTracked ==
  \A n \in INDICES : \A d \in DecisionsOf(n) :
    /\ Decision(d).recordedAfter = getAtmStrike(n, Decision(d).ltp)
    /\ Decision(d).recordedAfter % getStrikeDiff(n) = 0

\* after the first expansion: a tick within the increment left the record
\* alone and a later tick moved it
C20_Witness ==
  \E n \in INDICES : \E d, e \in DecisionsOf(n) :
    /\ ~Decision(d).isFirstMessage /\ ~Decision(d).triggered
    /\ ~Decision(e).isFirstMessage /\ Decision(e).triggered
    /\ Decision(e).ltp # Decision(d).ltp

(***************************************************************************)
(* Properties of the connection manager.                                   *)
(***************************************************************************)
\* 100 * 1.5^n for n = 1..9, the values below the cap
DelayTable ==
  << [num |-> 150, den |-> 1], [num |-> 225, den |-> 1], [num |-> 675, den |-> 2],
     [num |-> 2025, den |-> 4], [num |-> 6075, den |-> 8], [num |-> 18225, den |-> 16],
     [num |-> 54675, den |-> 32], [num |-> 164025, den |-> 64],
     [num |-> 492075, den |-> 128] >>

Capped == [num |-> 5000, den |-> 1]

\* C8 (as claimed): the delay set at reconnect attempt 1, 2, 3, 4, ... is
\* 100, 150, 225, 337.5, ... and 5000 from the first attempt whose computed
\* value exceeds 5000.
C8_ClaimedDelays ==
  reconnectCount >= 1 =>
    reconnectPeriod =
      IF reconnectCount = 1 THEN [num |-> 100, den |-> 1]
      ELSE IF reconnectCount - 1 <= Len(DelayTable) THEN DelayTable[reconnectCount - 1]
      ELSE Capped

\* C8 (amended): the delay set at reconnect attempt 1, 2, 3, 4, ... is
\* 150, 225, 337.5, 506.25, ... (100 times 1.5 to the attempt number), it is
\* 5000 from attempt 10 on, the first whose computed value exceeds 5000, and
\* it never exceeds 5000.
C8_BackoffDelays ==
  /\ reconnectPeriod.num <= 5000 * reconnectPeriod.den
  /\ reconnectCount >= 1 =>
       reconnectPeriod = IF reconnectCount <= Len(DelayTable)
                         THEN DelayTable[reconnectCount] ELSE Capped

\* after a connect, ten consecutive failed attempts: the delay has reached the cap
C8_Witness ==
  /\ healthCheckDue > 0
  /\ reconnectCount = 10
  /\ reconnectPeriod = Capped

\* C12: staleness detection - a session is never connected with its last
\* packet more than the staleness threshold plus one health-check period in
\* the past: once the gap exceeds the threshold, the next health check, at
\* most one period later, has force-closed the session (whose end callback
\* requests the reconnect).
C12_StalenessDetected ==
  session = "connected" =>
    now - lastPacketTime <= StaleAfter + HEALTH_CHECK_INTERVAL

\* a silent session force-closed at the latest moment: the check one period
\* earlier saw a gap of exactly the threshold, which does not exceed it
C12_Witness ==
  /\ session = "closing"
  /\ healthCheckTimer
  /\ now - lastPacketTime = StaleAfter + HEALTH_CHECK_INTERVAL

\* C17: health monitor lifetime - at most one health-check interval is alive,
\* it is the one healthCheckTimer holds, and it is alive exactly from a
\* connect event to the close event that follows it (a session the monitor
\* has force-closed is "closing" until its close event is delivered).
C17_HealthMonitorLifetime ==
  /\ liveIntervals <= 1
  /\ healthCheckTimer <=> liveIntervals = 1
  /\ healthCheckTimer <=> session \in {"connected", "closing"}

\* a monitor was started, cancelled by the close the monitor itself forced,
\* and started again by the connect event of the reconnection
C17_Witness ==
  /\ session = "connected"
  /\ liveIntervals = 1
  /\ reconnectCount = 0
  /\ reconnectPeriod # Fraction(InitialReconnectPeriod, 1)
  /\ lastPacketTime > StaleAfter
  /\ now = lastPacketTime

====
